---- MODULE Spec2Model ----
(***************************************************************************)
(* Model of okteto's dev-mode core: the pod readiness poller               *)
(* (pkg/k8s/pods/pod.go, GetByLabel), the pod restart (Restart,            *)
(* waitUntilRunning), the deployment mutator (pkg/k8s/deployments,         *)
(* DevModeOff / Deploy / update) and its resource merge                    *)
(* (TranslateResources).                                                   *)
(***************************************************************************)
EXTENDS Integers, Sequences, FiniteSets, TLC

VARIABLES
    \* ---- GetByLabel (pod.go:36-105)
    pc,                 \* position of GetByLabel: "loop", "listed", "select", "done"
    tries,              \* pod.go:37
    waitUntilDeployed,  \* parameter of GetByLabel
    listErr,            \* err of the pod list call of this attempt (pod.go:41)
    pods,               \* pods.Items of this attempt (pod.go:41)
    lookup,             \* answer of deployments.Get in this attempt's side-check, NoLookup if none
    cancelled,          \* ctx.Done() is closed
    tickReady,          \* a tick is buffered in ticker.C
    result,             \* what GetByLabel returned: "none" while it runs
    retPod,             \* index in pods of the returned pod, 0 for nil
    \* ---- observers of the run
    listCalls,          \* number of pod list calls issued
    allEmpty,           \* every list so far succeeded with zero pods
    preCancelled,       \* ctx was already cancelled when GetByLabel was called
    \* ---- DevModeOff (part_000:128-164)
    dpc,                \* position of DevModeOff: "start", "update", "done" ("idle": not called)
    dep,                \* the deployment object the caller passed (*d of the caller)
    given,              \* dep as it was when DevModeOff was called
    path,               \* branch DevModeOff took: "partial", "wholesale", "noop", "none" before
    written,            \* objects handed to Deployments().Update, in order
    store,              \* the deployment as the cluster stores it
    edited,             \* another writer has changed the stored deployment
    dmResult,           \* what DevModeOff or Deploy returned: "none" while it runs
    \* ---- Restart, waitUntilRunning (pod.go:139-221)
    rpc,                \* position of Restart: "start", "delete", "loop", "listed", "tick", "done"
    toDelete,           \* names of pods.Items of the initial list (pod.go:140)
    deleted,            \* names handed to Pods().Delete, in order
    iteration,          \* i of waitUntilRunning (pod.go:167)
    notready,           \* pod.go:165
    rpods,              \* pods.Items of this iteration of the wait (pod.go:172)
    waitLists,          \* number of pod list calls issued by waitUntilRunning
    rResult,            \* what Restart returned: "none" while it runs
    named,              \* the pod names in the returned error
    \* ---- TranslateResources
    container,          \* c.Resources of the container
    rule,               \* r, the resource requirements of the rule
    before,             \* container as it was before the first application
    once,               \* container as it was after the first application
    applied,            \* number of applications of the rule so far
    zeroOverwrites,     \* whether a zero quantity of the rule counts as specified
    \* ---- GetTranslations, Get (part_000:17-90)
    gpc,                \* position of GetTranslations: "start", "services", "done" ("idle": not called)
    namespace,          \* dev.Namespace
    cluster,            \* the deployments of the namespace: their labels, by name
    manifest,           \* dev: the name and labels of the primary and of its services
    primary,            \* d.Name of the deployment passed to GetTranslations, Nil for nil
    service,            \* index in dev.Services of the next service of the loop (part_000:67)
    translations,       \* result (part_000:54), by workload name
    gets,               \* the calls of Get so far, with their answers, in order
    gtResult,           \* err GetTranslations returned: "none" while it runs
    returned,           \* the map GetTranslations returned: Nil for nil
    \* ---- ToTranslationRule (part_002:299-348)
    root,               \* main, the manifest as Read built it
    node,               \* the node translated next: 0 for main, k for main.Services[k]
    built,              \* the rules built so far: built[k + 1] is the rule of node k
    \* ---- TranslateSecurityContext
    capabilities,       \* c.SecurityContext.Capabilities of the container
    ruleCapabilities,   \* s.Capabilities of the rule
    capsBefore,         \* capabilities as they were before the first application
    capsApplied         \* number of applications of the rule so far

pollVars == <<pc, tries, waitUntilDeployed, listErr, pods, lookup, cancelled,
              tickReady, result, retPod, listCalls, allEmpty, preCancelled>>

devVars == <<dpc, dep, given, path, written, store, edited, dmResult>>

restartVars == <<rpc, toDelete, deleted, iteration, notready, rpods, waitLists, rResult, named>>

resVars == <<container, rule, before, once, applied, zeroOverwrites>>

gtVars == <<gpc, namespace, cluster, manifest, primary, service, translations, gets,
            gtResult, returned>>

ruleVars == <<root, node, built>>

secVars == <<capabilities, ruleCapabilities, capsBefore, capsApplied>>

extVars == <<gtVars, ruleVars, secVars>>

vars == <<pollVars, devVars, restartVars, resVars, extVars>>

----------------------------------------------------------------------------
(* Program constants *)

maxRetries == 600
sideCheckEvery == 10

OktetoInitContainer == "okteto-init"
failedCreateReason == "FailedCreate"
DeploymentReplicaFailure == "ReplicaFailure"
PodRunning == "Running"
PodPending == "Pending"

(* Bounds of the model *)
MaxPods == 2

----------------------------------------------------------------------------
(* What the cluster can answer *)

\* pod.Status.InitContainerStatuses: terminated says State.Terminated is set and
\* exitCode is its ExitCode; waiting is State.Waiting.Reason, "nil" if unset.
InitStatus(n, t, c, w) == [name |-> n, terminated |-> t, exitCode |-> c, waiting |-> w]

NoInit == <<>>
InitExit1 == <<InitStatus(OktetoInitContainer, TRUE, 1, "nil")>>
InitErrImagePull == <<InitStatus(OktetoInitContainer, FALSE, 0, "ErrImagePull")>>
InitBackOff == <<InitStatus(OktetoInitContainer, FALSE, 0, "ImagePullBackOff")>>
OtherInitExit1 == <<InitStatus("istio-init", TRUE, 1, "nil"), InitStatus(OktetoInitContainer, TRUE, 0, "nil")>>

Pod(ph, del, init) == [phase |-> ph, deleting |-> del, init |-> init]

PodKinds ==
    { Pod(PodRunning, FALSE, NoInit),
      Pod(PodRunning, TRUE, NoInit),
      Pod(PodRunning, FALSE, InitExit1),
      Pod(PodPending, FALSE, NoInit),
      Pod(PodPending, FALSE, InitExit1),
      Pod(PodPending, FALSE, InitErrImagePull),
      Pod(PodPending, FALSE, InitBackOff),
      Pod(PodPending, FALSE, OtherInitExit1) }

PodLists == UNION { [1..n -> PodKinds] : n \in 0..MaxPods }

\* d.Status.Conditions entries; quotaMsg: the message contains "exceeded quota"
Condition(t, r, s, q) == [type |-> t, reason |-> r, status |-> s, quotaMsg |-> q]

ConditionLists ==
    { <<>>,
      <<Condition("Available", "MinimumReplicasAvailable", "True", FALSE)>>,
      <<Condition(DeploymentReplicaFailure, failedCreateReason, "True", TRUE)>>,
      <<Condition("Progressing", "NewReplicaSetCreated", "True", FALSE),
        Condition(DeploymentReplicaFailure, failedCreateReason, "True", TRUE)>>,
      <<Condition(DeploymentReplicaFailure, failedCreateReason, "True", FALSE)>>,
      <<Condition(DeploymentReplicaFailure, failedCreateReason, "False", TRUE)>>,
      <<Condition(DeploymentReplicaFailure, "FailedUpdate", "True", TRUE)>> }

NoLookup == [err |-> "none", conditions |-> <<>>]

\* answers of deployments.Get (part_000:17-50): a deployment, or an error
GetResults ==
    { [err |-> e, conditions |-> <<>>] : e \in {"NotFound", "ApiError", "Ambiguous"} }
    \cup { [err |-> "nil", conditions |-> c] : c \in ConditionLists }


----------------------------------------------------------------------------
(* Deployments: metadata keys, objects and the JSON held in annotations *)

OktetoDevLabel == "dev.okteto.com"
OktetoTranslationAnnotation == "dev.okteto.com/translation"
oktetoDeploymentAnnotation == "dev.okteto.com/deployment"
oktetoDeveloperAnnotation == "dev.okteto.com/developer"
oktetoVersionAnnotation == "dev.okteto.com/version"

(* Bounds of the model *)
MaxReplicas == 2

\* A map[string]T is a function on the keys it holds; nil and empty are one.
EmptyMap == [k \in {} |-> 0]
MapDelete(m, k) == [x \in (DOMAIN m) \ {k} |-> m[x]]
MapGet(m, k, zero) == IF k \in DOMAIN m THEN m[k] ELSE zero

\* The text of an annotation. kind: "empty" (the empty string), "plain" (text
\* that is not a JSON object) or "object" (a JSON object). Of a JSON object:
\* replicas is its top-level member "replicas" (<<>>: no such member; num says
\* the member is a JSON number, n its value), dep its members decoded as a
\* Deployment (<<>>: it has none of them).
Text(kind, replicas, d) == [kind |-> kind, replicas |-> replicas, dep |-> d]
EmptyText == Text("empty", <<>>, <<>>)
PlainText == Text("plain", <<>>, <<>>)
JsonNumber(n) == [num |-> TRUE, n |-> n]
JsonString == [num |-> FALSE, n |-> 0]

\* appsv1.Deployment. resourceVersion 0 is the empty string; replicas is
\* Spec.Replicas, <<>> for nil; status "" is the empty DeploymentStatus; podSpec
\* holds the names of the containers, init containers and volumes of the template.
PodSpec(containers, initContainers, volumes) ==
    [containers |-> containers, initContainers |-> initContainers, volumes |-> volumes]

Deployment(name, rv, status, labels, annotations, replicas, tmplAnnotations, podSpec) ==
    [name |-> name, resourceVersion |-> rv, status |-> status, labels |-> labels,
     annotations |-> annotations, replicas |-> replicas,
     tmplAnnotations |-> tmplAnnotations, podSpec |-> podSpec]

ZeroDeployment ==
    Deployment("", 0, "", EmptyMap, EmptyMap, <<>>, EmptyMap, PodSpec(<<>>, <<>>, <<>>))

\* the template before a session, and as the forward translation leaves it
OriginalPodSpec == PodSpec(<<"dev">>, <<>>, <<>>)
DevPodSpec ==
    PodSpec(<<"dev", "okteto-sync">>, <<"okteto-bin">>,
            <<"okteto", "okteto-bin", "okteto-sync-secret">>)

\* json.Marshal of a Translation whose Replicas is n, and of a Deployment
MarshalTranslation(n) == Text("object", <<JsonNumber(n)>>, <<>>)
MarshalDeployment(d) == Text("object", <<>>, <<d>>)

\* text that is not JSON is taken for an empty Translation
UnmarshalTranslation_Lenient(text) ==
    IF text.kind # "object" \/ text.replicas = <<>> THEN [err |-> FALSE, Replicas |-> 0]
    ELSE IF ~text.replicas[1].num THEN [err |-> TRUE, Replicas |-> 0]
    ELSE [err |-> FALSE, Replicas |-> text.replicas[1].n]

\* json.Unmarshal(text, &model.Translation{}) (part_000:142-145)
UnmarshalTranslation(text) ==
    IF text.kind # "object" THEN [err |-> TRUE, Replicas |-> 0]
    ELSE IF text.replicas = <<>> THEN [err |-> FALSE, Replicas |-> 0]
    ELSE IF ~text.replicas[1].num THEN [err |-> TRUE, Replicas |-> 0]
    ELSE [err |-> FALSE, Replicas |-> text.replicas[1].n]

\* json.Unmarshal(text, &appsv1.Deployment{}) (part_000:136-139)
UnmarshalDeployment(text) ==
    IF text.kind # "object" THEN [err |-> TRUE, d |-> ZeroDeployment]
    ELSE IF text.dep = <<>> THEN [err |-> FALSE, d |-> ZeroDeployment]
    ELSE [err |-> FALSE, d |-> text.dep[1]]

\* getAnnotation: the value under key, the empty string without it
getAnnotation(annotations, key) == MapGet(annotations, key, EmptyText)

\* len(getAnnotation(..)) == 0
IsEmptyText(text) == text.kind = "empty"

\* part_000:118-125
IsDevModeOn(d) == OktetoDevLabel \in DOMAIN d.labels

----------------------------------------------------------------------------
(* Inputs of DevModeOff *)

LabelMaps ==
    { EmptyMap,
      [k \in {OktetoDevLabel} |-> "true"],
      [k \in {"app"} |-> "web"],
      [k \in {OktetoDevLabel, "app"} |-> IF k = "app" THEN "web" ELSE "true"] }

\* the deployments a session captures: not in dev mode
Originals ==
    { Deployment("web", rv, st, l, a, <<n>>, EmptyMap, OriginalPodSpec) :
        rv \in {0, 5},
        st \in {"", "Available"},
        l \in {EmptyMap, [k \in {"app"} |-> "web"]},
        a \in {EmptyMap, [k \in {"dev.okteto.com/auto-create"} |-> PlainText]},
        n \in 1..MaxReplicas }

TranslationTexts ==
    { EmptyText, PlainText, Text("object", <<>>, <<>>), Text("object", <<JsonString>>, <<>>) }
    \cup { MarshalTranslation(n) : n \in 0..MaxReplicas }

ManifestTexts ==
    { EmptyText, PlainText, Text("object", <<>>, <<>>) }
    \cup { MarshalDeployment(o) : o \in Originals }

AnnotationMaps ==
    { [k \in keys |-> IF k = oktetoDeploymentAnnotation THEN m ELSE PlainText] :
        keys \in SUBSET {oktetoDeploymentAnnotation, oktetoDeveloperAnnotation,
                         oktetoVersionAnnotation},
        m \in ManifestTexts }

TemplateAnnotationMaps ==
    { [k \in keys |-> IF k = OktetoTranslationAnnotation THEN m ELSE PlainText] :
        keys \in SUBSET {OktetoTranslationAnnotation, "sidecar.istio.io/inject"},
        m \in TranslationTexts }

\* the deployment read from the cluster and passed to DevModeOff
LiveDeployments ==
    { Deployment("web", 7, "Available", l, a, <<1>>, ta, DevPodSpec) :
        l \in LabelMaps, a \in AnnotationMaps, ta \in TemplateAnnotationMaps }

\* Restart is not running
RestartIdle ==
    /\ rpc = "idle"
    /\ toDelete = <<>>
    /\ deleted = <<>>
    /\ iteration = 0
    /\ notready = {}
    /\ rpods = <<>>
    /\ waitLists = 0
    /\ rResult = "none"
    /\ named = {}

\* TranslateResources is not running
ResIdle ==
    /\ container = <<>>
    /\ rule = <<>>
    /\ before = <<>>
    /\ once = <<>>
    /\ applied = 0
    /\ zeroOverwrites = FALSE

\* a nil *appsv1.Deployment, and a nil map of translations
NilDeployment == "nil"
NilMap == [nil |-> TRUE]

\* GetTranslations is not running
GtIdle ==
    /\ gpc = "idle"
    /\ namespace = ""
    /\ cluster = <<>>
    /\ manifest = <<>>
    /\ primary = NilDeployment
    /\ service = 0
    /\ translations = <<>>
    /\ gets = <<>>
    /\ gtResult = "none"
    /\ returned = NilMap

\* ToTranslationRule is not running
RuleIdle ==
    /\ root = <<>>
    /\ node = 0
    /\ built = <<>>

\* TranslateSecurityContext is not running
SecIdle ==
    /\ capabilities = <<>>
    /\ ruleCapabilities = <<>>
    /\ capsBefore = <<>>
    /\ capsApplied = 0

\* none of GetTranslations, ToTranslationRule, TranslateSecurityContext is running
ExtIdle == GtIdle /\ RuleIdle /\ SecIdle

\* DevModeOff is not running
DevIdle ==
    /\ dpc = "idle"
    /\ dep = ZeroDeployment
    /\ given = ZeroDeployment
    /\ path = "none"
    /\ written = <<>>
    /\ store = ZeroDeployment
    /\ edited = FALSE
    /\ dmResult = "none"

----------------------------------------------------------------------------
(* GetByLabel *)

IsNotFound(err) == err = "NotFound"

RECURSIVE QuotaCondition(_, _)
QuotaCondition(conds, i) ==
    IF i > Len(conds) THEN "nil"
    ELSE IF /\ conds[i].type = DeploymentReplicaFailure
            /\ conds[i].reason = failedCreateReason
            /\ conds[i].status = "True"
            /\ conds[i].quotaMsg
         THEN "ErrQuota"
         ELSE QuotaCondition(conds, i + 1)

\* every error of the lookup is handed on
isDeploymentFailed_ReturnsAllErrors(g) ==
    IF g.err # "nil" THEN g.err ELSE QuotaCondition(g.conditions, 1)

\* pod.go:116-136
isDeploymentFailed(g) ==
    IF g.err # "nil"
    THEN IF IsNotFound(g.err) THEN g.err ELSE "nil"
    ELSE QuotaCondition(g.conditions, 1)

\* the workload is looked up in every attempt that lists no pod
SideCheckDue_EveryAttempt(t, items) == Len(items) = 0

\* pod.go:51
SideCheckDue(t, items) == t % sideCheckEvery = 0 /\ Len(items) = 0

\* the flag silences every error of the side-check
SideCheck_WaitSilencesAll(g, wait) ==
    LET err == isDeploymentFailed(g) IN
    IF err # "nil" /\ ~wait THEN err ELSE "nil"

\* pod.go:54-62: the error the side-check returns from GetByLabel, "nil" to go on
SideCheck(g, wait) ==
    LET err == isDeploymentFailed(g) IN
    IF err # "nil"
    THEN IF ~IsNotFound(err) THEN err
         ELSE IF ~wait THEN err ELSE "nil"
    ELSE "nil"

\* only ErrImagePull counts as an image-pull failure
RECURSIVE InitError_OnlyErrImagePull(_, _)
InitError_OnlyErrImagePull(statuses, i) ==
    IF i > Len(statuses) THEN "nil"
    ELSE LET status == statuses[i] IN
         IF status.name = OktetoInitContainer
         THEN IF status.terminated /\ status.exitCode # 0
              THEN "InitVolumeError"
              ELSE IF status.waiting = "ErrImagePull"
                   THEN "ImagePullError"
                   ELSE InitError_OnlyErrImagePull(statuses, i + 1)
         ELSE InitError_OnlyErrImagePull(statuses, i + 1)

\* pod.go:73-84
RECURSIVE InitError(_, _)
InitError(statuses, i) ==
    IF i > Len(statuses) THEN "nil"
    ELSE LET status == statuses[i] IN
         IF status.name = OktetoInitContainer
         THEN IF status.terminated /\ status.exitCode # 0
              THEN "InitVolumeError"
              ELSE IF status.waiting # "nil"
                      /\ (status.waiting = "ErrImagePull" \/ status.waiting = "ImagePullBackOff")
                   THEN "ImagePullError"
                   ELSE InitError(statuses, i + 1)
         ELSE InitError(statuses, i + 1)

\* the deletion timestamp is not looked at
RECURSIVE ScanPods_IgnoreDeletion(_, _, _)
ScanPods_IgnoreDeletion(items, i, running) ==
    IF i > Len(items) THEN [err |-> "nil", running |-> running]
    ELSE LET pod == items[i] IN
         IF pod.phase = PodRunning
         THEN ScanPods_IgnoreDeletion(items, i + 1, Append(running, i))
         ELSE LET e == InitError(pod.init, 1) IN
              IF e # "nil" THEN [err |-> e, running |-> running]
              ELSE ScanPods_IgnoreDeletion(items, i + 1, running)

\* pod.go:65-86: err is the error returned from inside the loop, running the
\* indices collected in runningPods
RECURSIVE ScanPods(_, _, _)
ScanPods(items, i, running) ==
    IF i > Len(items) THEN [err |-> "nil", running |-> running]
    ELSE LET pod == items[i] IN
         IF pod.phase = PodRunning
         THEN ScanPods(items, i + 1,
                       IF ~pod.deleting THEN Append(running, i) ELSE running)
         ELSE LET e == InitError(pod.init, 1) IN
              IF e # "nil" THEN [err |-> e, running |-> running]
              ELSE ScanPods(items, i + 1, running)

Return(res, p) == [returns |-> TRUE, result |-> res, pod |-> p]
Continue == [returns |-> FALSE, result |-> "none", pod |-> 0]

\* a failed list is retried at the next tick
Attempt_RetryListError(t, lerr, items, g, wait) ==
    IF lerr THEN Continue
    ELSE LET side == IF SideCheckDue(t, items) THEN SideCheck(g, wait) ELSE "nil" IN
         IF side # "nil" THEN Return(side, 0)
         ELSE LET scan == ScanPods(items, 1, <<>>) IN
              IF scan.err # "nil" THEN Return(scan.err, 0)
              ELSE IF Len(scan.running) = 1 THEN Return("Success", scan.running[1])
              ELSE Continue

\* the first of several running pods is returned
Attempt_AnyRunning(t, lerr, items, g, wait) ==
    IF lerr THEN Return("ListError", 0)
    ELSE LET side == IF SideCheckDue(t, items) THEN SideCheck(g, wait) ELSE "nil" IN
         IF side # "nil" THEN Return(side, 0)
         ELSE LET scan == ScanPods(items, 1, <<>>) IN
              IF scan.err # "nil" THEN Return(scan.err, 0)
              ELSE IF Len(scan.running) >= 1 THEN Return("Success", scan.running[1])
              ELSE Continue

\* pod.go:46-91: one attempt, from the answer of the list call to the select
Attempt(t, lerr, items, g, wait) ==
    IF lerr THEN Return("ListError", 0)
    ELSE LET side == IF SideCheckDue(t, items) THEN SideCheck(g, wait) ELSE "nil" IN
         IF side # "nil" THEN Return(side, 0)
         ELSE LET scan == ScanPods(items, 1, <<>>) IN
              IF scan.err # "nil" THEN Return(scan.err, 0)
              ELSE IF Len(scan.running) = 1 THEN Return("Success", scan.running[1])
              ELSE Continue

\* pod.go:40
LoopCondition_OffByOne(t) == t <= maxRetries
LoopCondition(t) == t < maxRetries

PollInit ==
    /\ pc = "loop"
    /\ tries = 0
    /\ waitUntilDeployed \in BOOLEAN
    /\ listErr = FALSE
    /\ pods = <<>>
    /\ lookup = NoLookup
    /\ cancelled \in BOOLEAN
    /\ preCancelled = cancelled
    /\ tickReady = FALSE
    /\ result = "none"
    /\ retPod = 0
    /\ listCalls = 0
    /\ allEmpty = TRUE
    /\ DevIdle
    /\ RestartIdle
    /\ ResIdle
    /\ ExtIdle

\* pod.go:40-45: the loop condition holds and the pod list call is answered
List ==
    /\ pc = "loop"
    /\ LoopCondition(tries)
    /\ \E ok \in BOOLEAN :
         /\ listErr' = ~ok
         /\ IF ok THEN pods' \in PodLists ELSE pods' = <<>>
    /\ allEmpty' = (allEmpty /\ ~listErr' /\ pods' = <<>>)
    /\ listCalls' = listCalls + 1
    /\ lookup' = NoLookup
    /\ pc' = "listed"
    /\ UNCHANGED <<tries, waitUntilDeployed, cancelled, tickReady, result, retPod,
                   preCancelled, devVars, restartVars, resVars, extVars>>

\* pod.go:46-91
Evaluate ==
    /\ pc = "listed"
    /\ \E g \in (IF ~listErr /\ SideCheckDue(tries, pods) THEN GetResults ELSE {NoLookup}) :
         LET o == Attempt(tries, listErr, pods, g, waitUntilDeployed) IN
         /\ lookup' = g
         /\ IF o.returns
            THEN /\ pc' = "done"
                 /\ result' = o.result
                 /\ retPod' = o.pod
                 /\ pods' = pods
            ELSE /\ pc' = "select"
                 /\ pods' = <<>>
                 /\ UNCHANGED <<result, retPod>>
    /\ UNCHANGED <<tries, waitUntilDeployed, listErr, cancelled, tickReady,
                   listCalls, allEmpty, preCancelled, devVars, restartVars, resVars, extVars>>

\* the tick is taken without counting the attempt
SelectTick_NoIncrement ==
    /\ pc = "select"
    /\ tickReady
    /\ tickReady' = FALSE
    /\ lookup' = NoLookup
    /\ pc' = "loop"
    /\ UNCHANGED <<tries, waitUntilDeployed, listErr, pods, cancelled, result, retPod,
                   listCalls, allEmpty, preCancelled, devVars, restartVars, resVars, extVars>>

\* pod.go:93-96
SelectTick ==
    /\ pc = "select"
    /\ tickReady
    /\ tickReady' = FALSE
    /\ tries' = tries + 1
    /\ lookup' = NoLookup
    /\ pc' = "loop"
    /\ UNCHANGED <<waitUntilDeployed, listErr, pods, cancelled, result, retPod,
                   listCalls, allEmpty, preCancelled, devVars, restartVars, resVars, extVars>>

\* the cancellation is reported as the timeout
SelectDone_AsTimeout ==
    /\ pc = "select"
    /\ cancelled
    /\ pc' = "done"
    /\ result' = "Timeout"
    /\ UNCHANGED <<tries, waitUntilDeployed, listErr, pods, lookup, cancelled,
                   tickReady, retPod, listCalls, allEmpty, preCancelled, devVars, restartVars, resVars, extVars>>

\* pod.go:97-99
SelectDone ==
    /\ pc = "select"
    /\ cancelled
    /\ pc' = "done"
    /\ result' = "Cancelled"
    /\ UNCHANGED <<tries, waitUntilDeployed, listErr, pods, lookup, cancelled,
                   tickReady, retPod, listCalls, allEmpty, preCancelled, devVars, restartVars, resVars, extVars>>

\* pod.go:40, 103-104: the loop condition fails
TimedOut ==
    /\ pc = "loop"
    /\ ~LoopCondition(tries)
    /\ pc' = "done"
    /\ result' = "Timeout"
    /\ UNCHANGED <<tries, waitUntilDeployed, listErr, pods, lookup, cancelled,
                   tickReady, retPod, listCalls, allEmpty, preCancelled, devVars, restartVars, resVars, extVars>>

\* pod.go:38: the 500ms ticker delivers a tick. A tick delivered while the list
\* call is in flight stays buffered until the select, so it is delivered here
\* while the loop is at the select.
Tick ==
    /\ pc = "select"
    /\ ~tickReady
    /\ tickReady' = TRUE
    /\ UNCHANGED <<pc, tries, waitUntilDeployed, listErr, pods, lookup, cancelled,
                   result, retPod, listCalls, allEmpty, preCancelled, devVars, restartVars, resVars, extVars>>

\* the caller cancels ctx
Cancel ==
    /\ pc # "done"
    /\ ~cancelled
    /\ cancelled' = TRUE
    /\ UNCHANGED <<pc, tries, waitUntilDeployed, listErr, pods, lookup, tickReady,
                   result, retPod, listCalls, allEmpty, preCancelled, devVars, restartVars, resVars, extVars>>

PollNext == List \/ Evaluate \/ SelectTick \/ SelectDone \/ TimedOut \/ Tick \/ Cancel

PollSpec == PollInit /\ [][PollNext]_vars

\* a step of GetByLabel itself
PollStep == List \/ Evaluate \/ SelectTick \/ SelectDone \/ TimedOut

\* GetByLabel keeps running (the list call is answered, the loop body runs) and
\* the ticker keeps firing
PollFairSpec == PollSpec /\ WF_vars(PollStep) /\ WF_vars(Tick)

----------------------------------------------------------------------------
(* DevModeOff *)

\* the status is sent along
update_KeepsStatus(d) == [d EXCEPT !.resourceVersion = 0]

\* the resource version read from the cluster is sent along
update_KeepsResourceVersion(d) == [d EXCEPT !.status = ""]

\* part_000:175-178: what update does to the object before it calls the API
update(d) == [d EXCEPT !.resourceVersion = 0, !.status = ""]

\* the annotations are dropped altogether
PartialRestore_ClearsAnnotations(d, trRules) ==
    [d EXCEPT !.replicas = <<trRules.Replicas>>,
              !.annotations = EmptyMap,
              !.tmplAnnotations = MapDelete(@, OktetoTranslationAnnotation),
              !.labels = MapDelete(@, OktetoDevLabel)]

\* part_000:146-156: the partial restore, in place
PartialRestore(d, trRules) ==
    [d EXCEPT !.replicas = <<trRules.Replicas>>,
              !.annotations = MapDelete(MapDelete(@, oktetoDeveloperAnnotation),
                                        oktetoVersionAnnotation),
              !.tmplAnnotations = MapDelete(@, OktetoTranslationAnnotation),
              !.labels = MapDelete(@, OktetoDevLabel)]

\* the original-manifest annotation is looked at first
DevModeOffBody_ManifestFirst(d) ==
    LET dManifest == getAnnotation(d.annotations, oktetoDeploymentAnnotation) IN
    IF IsEmptyText(dManifest)
    THEN LET trRulesJSON == getAnnotation(d.tmplAnnotations, OktetoTranslationAnnotation) IN
         IF IsEmptyText(trRulesJSON)
         THEN [ret |-> "ok", path |-> "noop", caller |-> d, request |-> <<>>]
         ELSE LET trRules == UnmarshalTranslation(trRulesJSON) IN
              IF trRules.err
              THEN [ret |-> "MalformedTrRules", path |-> "partial", caller |-> d,
                    request |-> <<>>]
              ELSE LET restored == update(PartialRestore(d, trRules)) IN
                   [ret |-> "", path |-> "partial", caller |-> restored,
                    request |-> <<restored>>]
    ELSE LET dOrig == UnmarshalDeployment(dManifest) IN
         IF dOrig.err
         THEN [ret |-> "MalformedManifest", path |-> "wholesale", caller |-> d,
               request |-> <<>>]
         ELSE [ret |-> "", path |-> "wholesale", caller |-> d,
               request |-> <<update(dOrig.d)>>]

\* part_000:128-159: DevModeOff up to the Update call. ret is the value returned
\* before any write ("" when update is called), caller the caller's object
\* afterwards, request the object handed to Update.
DevModeOffBody(d) ==
    LET trRulesJSON == getAnnotation(d.tmplAnnotations, OktetoTranslationAnnotation) IN
    IF IsEmptyText(trRulesJSON)
    THEN LET dManifest == getAnnotation(d.annotations, oktetoDeploymentAnnotation) IN
         IF IsEmptyText(dManifest)
         THEN [ret |-> "ok", path |-> "noop", caller |-> d, request |-> <<>>]
         ELSE LET dOrig == UnmarshalDeployment(dManifest) IN
              IF dOrig.err
              THEN [ret |-> "MalformedManifest", path |-> "wholesale", caller |-> d,
                    request |-> <<>>]
              ELSE [ret |-> "", path |-> "wholesale", caller |-> d,
                    request |-> <<update(dOrig.d)>>]
    ELSE LET trRules == UnmarshalTranslation(trRulesJSON) IN
         IF trRules.err
         THEN [ret |-> "MalformedTrRules", path |-> "partial", caller |-> d,
               request |-> <<>>]
         ELSE LET restored == update(PartialRestore(d, trRules)) IN
              [ret |-> "", path |-> "partial", caller |-> restored,
               request |-> <<restored>>]

\* Deployments(ns).Update of the cluster: a whole-object replace, refused when the
\* object names a resource version other than the stored one
ApiUpdate(stored, obj) ==
    IF obj.name # stored.name THEN [err |-> "NotFound", stored |-> stored]
    ELSE IF obj.resourceVersion # 0 /\ obj.resourceVersion # stored.resourceVersion
    THEN [err |-> "Conflict", stored |-> stored]
    ELSE [err |-> "ok",
          stored |-> [obj EXCEPT !.resourceVersion = stored.resourceVersion + 1,
                                 !.status = stored.status]]

\* GetByLabel is not running
PollIdle ==
    /\ pc = "idle"
    /\ tries = 0
    /\ waitUntilDeployed = FALSE
    /\ listErr = FALSE
    /\ pods = <<>>
    /\ lookup = NoLookup
    /\ cancelled = FALSE
    /\ preCancelled = FALSE
    /\ tickReady = FALSE
    /\ result = "none"
    /\ retPod = 0
    /\ listCalls = 0
    /\ allEmpty = TRUE

DevOffInit ==
    /\ PollIdle
    /\ ExtIdle
    /\ RestartIdle
    /\ ResIdle
    /\ dpc = "start"
    /\ dep \in LiveDeployments
    /\ given = dep
    /\ store = dep
    /\ path = "none"
    /\ written = <<>>
    /\ edited = FALSE
    /\ dmResult = "none"

\* part_000:128-159, 175-179: DevModeOff runs up to its return or its Update call
DevModeOff ==
    /\ dpc = "start"
    /\ LET b == DevModeOffBody(dep) IN
         /\ dep' = b.caller
         /\ path' = b.path
         /\ written' = written \o b.request
         /\ IF b.request = <<>>
            THEN dpc' = "done" /\ dmResult' = b.ret
            ELSE dpc' = "update" /\ dmResult' = dmResult
    /\ UNCHANGED <<given, store, edited, pollVars, restartVars, resVars, extVars>>

\* part_000:159-163, 179-183: the cluster answers the Update call and DevModeOff returns
UpdateAnswer ==
    /\ dpc = "update"
    /\ \E reached \in BOOLEAN :
         LET r == ApiUpdate(store, written[Len(written)]) IN
         IF reached
         THEN store' = r.stored /\ dmResult' = r.err
         ELSE store' = store /\ dmResult' = "ApiError"
    /\ dpc' = "done"
    /\ UNCHANGED <<dep, given, path, written, edited, pollVars, restartVars, resVars, extVars>>

\* another client writes the stored deployment while DevModeOff runs
ExternalEdit ==
    /\ dpc \in {"start", "update"}
    /\ ~edited
    /\ edited' = TRUE
    /\ store' = [store EXCEPT !.resourceVersion = @ + 1, !.replicas = <<0>>]
    /\ UNCHANGED <<dpc, dep, given, path, written, dmResult, pollVars, restartVars, resVars, extVars>>

DevOffNext == DevModeOff \/ UpdateAnswer \/ ExternalEdit

DevOffSpec == DevOffInit /\ [][DevOffNext]_vars

----------------------------------------------------------------------------
(* Deploy *)

\* Deployments(ns).Create of the cluster: refused when a deployment of that name
\* is stored
ApiCreate(stored, obj) ==
    IF obj.name = stored.name THEN [err |-> "AlreadyExists", stored |-> stored]
    ELSE [err |-> "ok", stored |-> stored]

\* part_000:93-104: Deploy runs up to its Create or Update call; update clears
\* the resource version and the status of the caller's object in place
Deploy ==
    /\ dpc = "start"
    /\ \E forceCreate \in BOOLEAN :
         IF forceCreate
         THEN /\ dpc' = "create"
              /\ path' = "create"
              /\ UNCHANGED <<dep, written>>
         ELSE /\ dpc' = "update"
              /\ path' = "deploy"
              /\ dep' = update(dep)
              /\ written' = Append(written, update(dep))
    /\ UNCHANGED <<given, store, edited, dmResult, pollVars, restartVars, resVars, extVars>>

\* part_000:166-173, 95-97: the cluster answers the Create call and Deploy returns
CreateAnswer ==
    /\ dpc = "create"
    /\ \E reached \in BOOLEAN :
         LET r == ApiCreate(store, dep) IN
         IF reached
         THEN store' = r.stored /\ dmResult' = r.err
         ELSE store' = store /\ dmResult' = "ApiError"
    /\ dpc' = "done"
    /\ UNCHANGED <<dep, given, path, written, edited, pollVars, restartVars, resVars, extVars>>

\* the mutator: DevModeOff or Deploy on a deployment read from the cluster
MutatorNext == DevOffNext \/ Deploy \/ CreateAnswer

MutatorSpec == DevOffInit /\ [][MutatorNext]_vars

----------------------------------------------------------------------------
(* Restart, waitUntilRunning *)

restartRetries == 60
PodFailed == "Failed"
\* a phase the switch of waitUntilRunning has no case for (Succeeded, Unknown)
PodSucceeded == "Succeeded"

\* the pods the detached selector can match
PodNames == {"dev-0", "dev-1"}
NameOrders ==
    {<<>>} \cup { <<n>> : n \in PodNames }
           \cup { o \in PodNames \X PodNames : o[1] # o[2] }

\* apiv1.Pod as waitUntilRunning reads it; ready: a Ready condition that is true
RestartPod(name, phase, deleting, ready) ==
    [name |-> name, phase |-> phase, deleting |-> deleting, ready |-> ready]
RestartPodKinds ==
    { RestartPod(n, ph, FALSE, FALSE) : n \in PodNames, ph \in {PodPending, PodFailed, PodSucceeded} }
    \cup { RestartPod(n, PodRunning, FALSE, r) : n \in PodNames, r \in BOOLEAN }
    \cup { RestartPod(n, PodRunning, TRUE, TRUE) : n \in PodNames }
RestartLists ==
    UNION { { l \in [1..Len(o) -> RestartPodKinds] : \A k \in 1..Len(o) : l[k].name = o[k] } :
            o \in NameOrders }

\* pod.go:223-241
isRunning(p) == p.phase = PodRunning /\ ~p.deleting /\ p.ready

\* a Failed pod is waited for like a Pending one
WaitScan_FailedNotReady(items, k, nr, all) ==
    [failed |-> <<>>,
     notready |-> (nr \ { items[j].name : j \in { x \in k..Len(items) : isRunning(items[x]) } })
                    \cup { items[j].name : j \in { x \in k..Len(items) :
                              items[x].phase \in {PodPending, PodFailed}
                              \/ (items[x].phase = PodRunning /\ ~isRunning(items[x])) } },
     allRunning |-> all /\ \A j \in k..Len(items) :
                       items[j].phase \notin {PodPending, PodFailed}
                       /\ (items[j].phase = PodRunning => isRunning(items[j]))]

\* a pod recorded as not ready and not seen ready since blocks success
RECURSIVE WaitScan_Remembers(_, _, _, _)
WaitScan_Remembers(items, k, nr, all) ==
    IF k > Len(items)
    THEN [failed |-> <<>>, notready |-> nr, allRunning |-> all /\ nr = {}]
    ELSE LET pod == items[k] IN
         CASE pod.phase = PodPending ->
                WaitScan_Remembers(items, k + 1, nr \cup {pod.name}, FALSE)
           [] pod.phase = PodFailed ->
                [failed |-> <<pod.name>>, notready |-> nr, allRunning |-> all]
           [] pod.phase = PodRunning ->
                IF isRunning(pod)
                THEN WaitScan_Remembers(items, k + 1, nr \ {pod.name}, all)
                ELSE WaitScan_Remembers(items, k + 1, nr \cup {pod.name}, FALSE)
           [] OTHER -> WaitScan_Remembers(items, k + 1, nr, all)

\* a pod in a phase other than Pending, Failed and Running is waited for
RECURSIVE WaitScan_OtherPhaseBlocks(_, _, _, _)
WaitScan_OtherPhaseBlocks(items, k, nr, all) ==
    IF k > Len(items) THEN [failed |-> <<>>, notready |-> nr, allRunning |-> all]
    ELSE LET pod == items[k] IN
         CASE pod.phase = PodPending ->
                WaitScan_OtherPhaseBlocks(items, k + 1, nr \cup {pod.name}, FALSE)
           [] pod.phase = PodFailed ->
                [failed |-> <<pod.name>>, notready |-> nr, allRunning |-> all]
           [] pod.phase = PodRunning ->
                IF isRunning(pod)
                THEN WaitScan_OtherPhaseBlocks(items, k + 1, nr \ {pod.name}, all)
                ELSE WaitScan_OtherPhaseBlocks(items, k + 1, nr \cup {pod.name}, FALSE)
           [] OTHER -> WaitScan_OtherPhaseBlocks(items, k + 1, nr \cup {pod.name}, FALSE)

\* pod.go:183-205: the loop over pods.Items from its k-th element on. failed is
\* the name of the pod the loop returned an error for, <<>> if it ran through.
RECURSIVE WaitScan(_, _, _, _)
WaitScan(items, k, nr, all) ==
    IF k > Len(items) THEN [failed |-> <<>>, notready |-> nr, allRunning |-> all]
    ELSE LET pod == items[k] IN
         CASE pod.phase = PodPending ->
                WaitScan(items, k + 1, nr \cup {pod.name}, FALSE)
           [] pod.phase = PodFailed ->
                [failed |-> <<pod.name>>, notready |-> nr, allRunning |-> all]
           [] pod.phase = PodRunning ->
                IF isRunning(pod)
                THEN WaitScan(items, k + 1, nr \ {pod.name}, all)
                ELSE WaitScan(items, k + 1, nr \cup {pod.name}, FALSE)
           [] OTHER -> WaitScan(items, k + 1, nr, all)

RestartInit ==
    /\ PollIdle
    /\ ExtIdle
    /\ DevIdle
    /\ ResIdle
    /\ rpc = "start"
    /\ toDelete = <<>>
    /\ deleted = <<>>
    /\ iteration = 0
    /\ notready = {}
    /\ rpods = <<>>
    /\ waitLists = 0
    /\ rResult = "none"
    /\ named = {}

\* pod.go:140-148: the initial list
RestartList ==
    /\ rpc = "start"
    /\ \E err \in BOOLEAN, names \in NameOrders :
         IF err
         THEN rpc' = "done" /\ rResult' = "ListError" /\ toDelete' = toDelete
         ELSE rpc' = "delete" /\ rResult' = rResult /\ toDelete' = names
    /\ UNCHANGED <<deleted, iteration, notready, rpods, waitLists, named,
                   pollVars, devVars, resVars, extVars>>

\* pod.go:150-158: one round of the delete loop
RestartDelete ==
    /\ rpc = "delete"
    /\ Len(deleted) < Len(toDelete)
    /\ deleted' = Append(deleted, toDelete[Len(deleted) + 1])
    /\ \E answer \in {"ok", "NotFound", "ApiError"} :
         CASE answer = "ok" -> rpc' = rpc /\ rResult' = rResult
           [] answer = "NotFound" -> rpc' = "done" /\ rResult' = "ok"
           [] answer = "ApiError" -> rpc' = "done" /\ rResult' = "DeleteError"
    /\ UNCHANGED <<toDelete, iteration, notready, rpods, waitLists, named,
                   pollVars, devVars, resVars, extVars>>

\* pod.go:160, 164-165: the delete loop is over, waitUntilRunning is called
RestartWait ==
    /\ rpc = "delete"
    /\ Len(deleted) = Len(toDelete)
    /\ rpc' = "loop"
    /\ iteration' = 0
    /\ notready' = {}
    /\ UNCHANGED <<toDelete, deleted, rpods, waitLists, rResult, named,
                   pollVars, devVars, resVars, extVars>>

\* pod.go:167-181: the list of an iteration
WaitList ==
    /\ rpc = "loop"
    /\ iteration < restartRetries
    /\ waitLists' = waitLists + 1
    /\ \E err \in BOOLEAN, l \in RestartLists :
         IF err
         THEN rpc' = "done" /\ rResult' = "ListError" /\ rpods' = <<>>
         ELSE rpc' = "listed" /\ rResult' = rResult /\ rpods' = l
    /\ UNCHANGED <<toDelete, deleted, iteration, notready, named,
                   pollVars, devVars, resVars, extVars>>

\* pod.go:183-210: the pods of the iteration are judged. rpods is kept at the
\* return and over the last tick, where the final error is built from notready.
WaitEvaluate ==
    /\ rpc = "listed"
    /\ LET scan == WaitScan(rpods, 1, notready, TRUE) IN
         IF scan.failed # <<>>
         THEN /\ rpc' = "done" /\ rResult' = "PodFailed"
              /\ named' = {scan.failed[1]}
              /\ UNCHANGED <<notready, rpods>>
         ELSE IF scan.allRunning
         THEN /\ rpc' = "done" /\ rResult' = "ok"
              /\ notready' = scan.notready
              /\ UNCHANGED <<named, rpods>>
         ELSE /\ rpc' = "tick"
              /\ notready' = scan.notready
              /\ rpods' = IF iteration = restartRetries - 1 THEN rpods ELSE <<>>
              /\ UNCHANGED <<named, rResult>>
    /\ UNCHANGED <<toDelete, deleted, iteration, waitLists, pollVars, devVars, resVars, extVars>>

\* pod.go:212, 167: the tick arrives, i++
WaitTick ==
    /\ rpc = "tick"
    /\ rpc' = "loop"
    /\ iteration' = iteration + 1
    /\ UNCHANGED <<toDelete, deleted, notready, rpods, waitLists, rResult, named,
                   pollVars, devVars, resVars, extVars>>

\* pod.go:215-220
WaitTimedOut ==
    /\ rpc = "loop"
    /\ iteration >= restartRetries
    /\ rpc' = "done"
    /\ rResult' = "Timeout"
    /\ named' = notready
    /\ UNCHANGED <<toDelete, deleted, iteration, notready, rpods, waitLists,
                   pollVars, devVars, resVars, extVars>>

RestartNext ==
    \/ RestartList \/ RestartDelete \/ RestartWait
    \/ WaitList \/ WaitEvaluate \/ WaitTick \/ WaitTimedOut

RestartSpec == RestartInit /\ [][RestartNext]_vars

----------------------------------------------------------------------------
(* TranslateResources *)

MaxQuantity == 2
MaxApplications == 2

\* apiv1.ResourceCPU, apiv1.ResourceMemory
ResourceNames == {"cpu", "memory"}

\* a ResourceList: the quantities it holds, by resource name
ResourceLists(quantities) == UNION { [names -> quantities] : names \in SUBSET ResourceNames }
ResourceRequirements(limits, requests) == [limits |-> limits, requests |-> requests]

\* c.Resources of a container: nil and empty lists are one
ContainerResources ==
    { ResourceRequirements(l, q) : l \in ResourceLists(1..MaxQuantity),
                                   q \in ResourceLists(1..MaxQuantity) }
\* the resources of a rule; 0 is a quantity of zero
RuleResources ==
    { ResourceRequirements(l, q) : l \in ResourceLists(0..MaxQuantity),
                                   q \in ResourceLists(0..MaxQuantity) }

\* the rule specifies a quantity for the resource: a non-zero one does; whether
\* a quantity of zero does is left to zero
Specifies(r, name, zero) == name \in DOMAIN r /\ (r[name] # 0 \/ zero)

\* the container's value wins
MergeList_ContainerWins(c, r, zero) ==
    [name \in (DOMAIN c) \cup { n \in DOMAIN r : Specifies(r, n, zero) } |->
        IF name \in DOMAIN c THEN c[name] ELSE r[name]]

\* the quantities are added up
MergeList_Sum(c, r, zero) ==
    [name \in (DOMAIN c) \cup { n \in DOMAIN r : Specifies(r, n, zero) } |->
        IF Specifies(r, name, zero)
        THEN r[name] + (IF name \in DOMAIN c THEN c[name] ELSE 0)
        ELSE c[name]]

\* the merge of one list (limits or requests): overwritten or kept
MergeList(c, r, zero) ==
    [name \in (DOMAIN c) \cup { n \in DOMAIN r : Specifies(r, n, zero) } |->
        IF Specifies(r, name, zero) THEN r[name] ELSE c[name]]

\* TranslateResources(c, r): limits and requests are merged independently
TranslateResources(c, r, zero) ==
    ResourceRequirements(MergeList(c.limits, r.limits, zero),
                         MergeList(c.requests, r.requests, zero))

ResInit ==
    /\ PollIdle
    /\ ExtIdle
    /\ DevIdle
    /\ RestartIdle
    /\ container \in ContainerResources
    /\ rule \in RuleResources
    /\ before = container
    /\ once = container
    /\ applied = 0
    /\ zeroOverwrites \in BOOLEAN

\* the forward translation applies the rule to the container
Translate ==
    /\ applied < MaxApplications
    /\ container' = TranslateResources(container, rule, zeroOverwrites)
    /\ once' = IF applied = 0 THEN container' ELSE once
    /\ applied' = applied + 1
    /\ UNCHANGED <<rule, before, zeroOverwrites, pollVars, devVars, restartVars, extVars>>

ResNext == Translate

ResSpec == ResInit /\ [][ResNext]_vars

----------------------------------------------------------------------------
(* Get, GetTranslations *)

MaxServices == 2

\* the names a deployment of the namespace, or a service of the manifest, has
DeploymentNames == {"web", "api"}
\* dev.Namespace: the empty string, or a namespace
Namespaces == {"", "staging"}

\* a map of labels: "app" is a or b, "tier" is x
GtLabelMaps ==
    { l \in UNION { [keys -> {"a", "b", "x"}] : keys \in SUBSET {"app", "tier"} } :
        /\ "app" \in DOMAIN l => l["app"] # "x"
        /\ "tier" \in DOMAIN l => l["tier"] = "x" }

\* the deployments of the namespace: their labels, by name
Clusters == UNION { [names -> GtLabelMaps] : names \in SUBSET DeploymentNames }

\* a node of the manifest, as what Get reads of it: a service has a name or
\* labels, never both (part_002:188-190)
Node(name, labels) == [name |-> name, labels |-> labels]
ServiceNodes ==
    { Node(n, <<>>) : n \in DeploymentNames }
        \cup { Node("", l) : l \in GtLabelMaps \ {<<>>} }
ServiceLists == UNION { [1..n -> ServiceNodes] : n \in 0..MaxServices }
\* dev: its name and its services
Manifests == { [name |-> "web", services |-> s] : s \in ServiceLists }

\* a label selector (part_002:286-296) matches the deployments that carry every
\* one of its pairs
Selects(selector, labels) ==
    \A k \in DOMAIN selector : k \in DOMAIN labels /\ labels[k] = selector[k]
\* Deployments(namespace).List with dev.LabelsSelector(): deploys.Items
ListItems(c, selector) == { n \in DOMAIN c : Selects(selector, c[n]) }

\* what a call of Get did: the API call it issued ("none", "get", "list"), the
\* names of the deployments the API answered with, err, and d.Name (NilDeployment for nil)
GetAnswer(call, items, err, dName) ==
    [call |-> call, items |-> items, err |-> err, d |-> dName]

\* of several matches the first is taken
Get_FirstOfMany(dev, ns, c, apiErr) ==
    IF ns = "" THEN GetAnswer("none", {}, "empty namespace", NilDeployment)
    ELSE IF Cardinality(DOMAIN dev.labels) = 0
    THEN IF apiErr THEN GetAnswer("get", {}, "ServerError", NilDeployment)
         ELSE IF dev.name \notin DOMAIN c THEN GetAnswer("get", {}, "NotFound", NilDeployment)
         ELSE GetAnswer("get", {dev.name}, "none", dev.name)
    ELSE LET items == ListItems(c, dev.labels) IN
         IF apiErr THEN GetAnswer("list", {}, "ServerError", NilDeployment)
         ELSE IF Cardinality(items) = 0 THEN GetAnswer("list", items, "NotFound", NilDeployment)
         ELSE GetAnswer("list", items, "none", CHOOSE n \in items : TRUE)

\* Get (part_000:17-50); apiErr: the API call Get issues fails
Get(dev, ns, c, apiErr) ==
    IF ns = "" THEN GetAnswer("none", {}, "empty namespace", NilDeployment)
    ELSE IF Cardinality(DOMAIN dev.labels) = 0
    THEN IF apiErr THEN GetAnswer("get", {}, "ServerError", NilDeployment)
         ELSE IF dev.name \notin DOMAIN c THEN GetAnswer("get", {}, "NotFound", NilDeployment)
         ELSE GetAnswer("get", {dev.name}, "none", dev.name)
    ELSE LET items == ListItems(c, dev.labels) IN
         IF apiErr THEN GetAnswer("list", {}, "ServerError", NilDeployment)
         ELSE IF Cardinality(items) = 0 THEN GetAnswer("list", items, "NotFound", NilDeployment)
         ELSE IF Cardinality(items) > 1 THEN GetAnswer("list", items, "Found many", NilDeployment)
         ELSE GetAnswer("list", items, "none", CHOOSE n \in items : TRUE)

\* the rule ToTranslationRule builds for node k of the manifest: 0 is dev,
\* k is dev.Services[k]
RuleOf(k) == [node |-> k]

\* a model.Translation: Interactive, Name and Rules
Translation(interactive, name, rules) ==
    [Interactive |-> interactive, Name |-> name, Rules |-> rules]

\* part_000:54-66: the translation of the deployment passed, if any
PrimaryTranslation(dev, dName) ==
    IF dName # NilDeployment
    THEN [n \in {dName} |-> Translation(TRUE, dev.name, <<RuleOf(0)>>)]
    ELSE <<>>

\* what one iteration of part_000:67-88 does: the map after it, whether
\* GetTranslations returns in it, and the err it returns then
Iteration(res, abort, err) == [result |-> res, abort |-> abort, err |-> err]

\* a service that is not found ends GetTranslations too
ServiceStep_NotFoundAborts(res, dev, k, g) ==
    IF g.err # "none"
    THEN Iteration(res, TRUE, g.err)
    ELSE IF g.d \in DOMAIN res
    THEN Iteration([res EXCEPT ![g.d].Rules = Append(@, RuleOf(k))], FALSE, "none")
    ELSE Iteration([n \in (DOMAIN res) \cup {g.d} |->
                        IF n = g.d THEN Translation(FALSE, dev.name, <<RuleOf(k)>>)
                        ELSE res[n]], FALSE, "none")

\* the rule of a service goes before the rules the translation holds
ServiceStep_Prepends(res, dev, k, g) ==
    IF g.err # "none"
    THEN IF IsNotFound(g.err) THEN Iteration(res, FALSE, "none")
         ELSE Iteration(res, TRUE, g.err)
    ELSE IF g.d \in DOMAIN res
    THEN Iteration([res EXCEPT ![g.d].Rules = <<RuleOf(k)>> \o @], FALSE, "none")
    ELSE Iteration([n \in (DOMAIN res) \cup {g.d} |->
                        IF n = g.d THEN Translation(FALSE, dev.name, <<RuleOf(k)>>)
                        ELSE res[n]], FALSE, "none")

\* part_000:68-87 for service k, whose lookup answered g
ServiceStep(res, dev, k, g) ==
    IF g.err # "none"
    THEN IF IsNotFound(g.err) THEN Iteration(res, FALSE, "none")
         ELSE Iteration(res, TRUE, g.err)
    ELSE IF g.d \in DOMAIN res
    THEN Iteration([res EXCEPT ![g.d].Rules = Append(@, RuleOf(k))], FALSE, "none")
    ELSE Iteration([n \in (DOMAIN res) \cup {g.d} |->
                        IF n = g.d THEN Translation(FALSE, dev.name, <<RuleOf(k)>>)
                        ELSE res[n]], FALSE, "none")

GtInit ==
    /\ PollIdle
    /\ DevIdle
    /\ RestartIdle
    /\ ResIdle
    /\ RuleIdle
    /\ SecIdle
    /\ gpc = "start"
    /\ namespace \in Namespaces
    /\ cluster \in Clusters
    /\ manifest \in Manifests
    /\ primary \in DeploymentNames \cup {NilDeployment}
    /\ service = 1
    /\ translations = <<>>
    /\ gets = <<>>
    /\ gtResult = "none"
    /\ returned = NilMap

\* part_000:54-66
GtStart ==
    /\ gpc = "start"
    /\ translations' = PrimaryTranslation(manifest, primary)
    /\ gpc' = "services"
    /\ UNCHANGED <<namespace, cluster, manifest, primary, service, gets, gtResult, returned,
                   pollVars, devVars, restartVars, resVars, ruleVars, secVars>>

\* part_000:67-88: one iteration of the loop over dev.Services
GtService ==
    /\ gpc = "services"
    /\ service <= Len(manifest.services)
    /\ \E apiErr \in BOOLEAN :
         LET g == Get(manifest.services[service], namespace, cluster, apiErr)
             it == ServiceStep(translations, manifest, service, g)
         IN /\ gets' = Append(gets, g)
            /\ translations' = it.result
            /\ IF it.abort
               THEN /\ gpc' = "done"
                    /\ gtResult' = it.err
                    /\ returned' = NilMap
                    /\ service' = service
               ELSE /\ service' = service + 1
                    /\ UNCHANGED <<gpc, gtResult, returned>>
    /\ UNCHANGED <<namespace, cluster, manifest, primary,
                   pollVars, devVars, restartVars, resVars, ruleVars, secVars>>

\* part_000:89
GtReturn ==
    /\ gpc = "services"
    /\ service > Len(manifest.services)
    /\ gpc' = "done"
    /\ gtResult' = "ok"
    /\ returned' = translations
    /\ UNCHANGED <<namespace, cluster, manifest, primary, service, translations, gets,
                   pollVars, devVars, restartVars, resVars, ruleVars, secVars>>

GtNext == GtStart \/ GtService \/ GtReturn

GtSpec == GtInit /\ [][GtNext]_vars

----------------------------------------------------------------------------
(* ToTranslationRule, FullSubPath *)

MaxVolumes == 2
MaxRuleServices == 1

\* part_002:21
oktetoVolumeName == "okteto"

\* a path is the sequence of its segments: the empty string is <<>>
EmptyPath == <<>>
\* the values of Dev.SubPath: none, "src", "../data-1"
SubPaths == {EmptyPath, <<"src">>, <<"..", "data-1">>}
\* the values of Dev.Command, Dev.WorkDir, Dev.MountPath and of one of Dev.Volumes
Commands == {<<>>, <<"./run.sh">>}
WorkDirs == {"", "/app"}
MountPaths == {"", "/src"}
VolumePaths == {"/data", "/cache"}
VolumeLists(max) == UNION { [1..n -> VolumePaths] : n \in 0..max }

\* model.Dev, as far as ToTranslationRule reads it
Dev(name, command, workdir, mountpath, subpath, volumes, services) ==
    [name |-> name, command |-> command, workdir |-> workdir, mountpath |-> mountpath,
     subpath |-> subpath, volumes |-> volumes, services |-> services]

\* the services and the manifests a file declares, before setDefaults
RawServices ==
    { Dev("worker", c, w, m, s, v, <<>>) :
        c \in Commands, w \in WorkDirs, m \in MountPaths, s \in SubPaths,
        v \in VolumeLists(1) }
RawManifests ==
    { Dev("web", c, w, m, s, v, ss) :
        c \in Commands, w \in WorkDirs, m \in MountPaths, s \in SubPaths,
        v \in VolumeLists(MaxVolumes),
        ss \in UNION { [1..n -> RawServices] : n \in 0..MaxRuleServices } }

\* uniqueStrings: the first occurrence of every string, in order
RECURSIVE uniqueStrings(_)
uniqueStrings(list) ==
    IF list = <<>> THEN <<>>
    ELSE LET front == uniqueStrings(SubSeq(list, 1, Len(list) - 1))
             last == list[Len(list)]
         IN IF \E x \in 1..Len(front) : front[x] = last THEN front ELSE Append(front, last)

\* part_002:166-173: the mount path and working directory after the defaults
DefaultMountPath(dev) ==
    IF dev.mountpath = "" /\ dev.workdir = "" THEN "/okteto"
    ELSE IF dev.mountpath = "" THEN dev.workdir
    ELSE dev.mountpath
DefaultWorkDir(dev) ==
    IF dev.mountpath = "" /\ dev.workdir = "" THEN "/okteto" ELSE dev.workdir

\* setDefaults (part_002:162-202)
setDefaults(dev) ==
    [dev EXCEPT
        !.command = IF Len(dev.command) = 0 THEN <<"sh">> ELSE dev.command,
        !.mountpath = DefaultMountPath(dev),
        !.workdir = DefaultWorkDir(dev),
        !.volumes = uniqueStrings(dev.volumes),
        !.services = [k \in 1..Len(dev.services) |->
                        [dev.services[k] EXCEPT
                            !.mountpath = DefaultMountPath(dev.services[k]),
                            !.workdir = DefaultWorkDir(dev.services[k]),
                            !.volumes = <<>>,
                            !.services = <<>>]]]

\* filepath.Clean of a relative path: ".." takes back the segment before it
RECURSIVE Clean(_, _)
Clean(done, rest) ==
    IF rest = <<>> THEN (IF done = <<>> THEN <<".">> ELSE done)
    ELSE IF Head(rest) = ".." /\ done # <<>> /\ done[Len(done)] # ".."
    THEN Clean(SubSeq(done, 1, Len(done) - 1), Tail(rest))
    ELSE Clean(Append(done, Head(rest)), Tail(rest))

\* filepath.Join: the segments of the elements, cleaned
Join(elems) == Clean(<<>>, elems)

\* FullSubPath (part_002:299-304): subPath is not read
FullSubPath(dev, index, subPath) ==
    IF dev.subpath = EmptyPath
    THEN Join(<<dev.name, "data-" \o ToString(index)>>)
    ELSE Join(<<dev.name, "data-" \o ToString(index)>> \o dev.subpath)

VolumeMount(name, mountPath, subPath) ==
    [Name |-> name, MountPath |-> mountPath, SubPath |-> subPath]

\* node k of the manifest main: 0 is main, k is main.Services[k]
NodeOf(main, k) == IF k = 0 THEN main ELSE main.services[k]

\* part_002:338-347: the mounts of the declared volumes
DeclaredMounts(main, dev) ==
    [x \in 1..Len(dev.volumes) |->
        VolumeMount(oktetoVolumeName, dev.volumes[x], FullSubPath(main, x, main.subpath))]

\* model.TranslationRule: nil and empty Command and Args are one
TranslationRule(healthchecks, command, args, workdir, volumes) ==
    [Healthchecks |-> healthchecks, Command |-> command, Args |-> args,
     WorkDir |-> workdir, Volumes |-> volumes]

\* the root keeps the command it declares
ToTranslationRule_RootKeepsCommand(main, k) ==
    LET dev == NodeOf(main, k)
        volumes == <<VolumeMount(oktetoVolumeName, dev.mountpath,
                                 FullSubPath(main, 0, dev.subpath))>>
                       \o DeclaredMounts(main, dev)
    IN IF Len(dev.command) > 0
       THEN TranslationRule(k # 0, dev.command, <<>>, dev.workdir, volumes)
       ELSE TranslationRule(k # 0, <<>>, <<>>, dev.workdir, volumes)

\* dev.ToTranslationRule(main, d) for node k of main (part_002:307-348);
\* main == dev is k = 0
ToTranslationRule(main, k) ==
    LET dev == NodeOf(main, k)
        volumes == <<VolumeMount(oktetoVolumeName, dev.mountpath,
                                 FullSubPath(main, 0, dev.subpath))>>
                       \o DeclaredMounts(main, dev)
    IN IF k = 0
       THEN TranslationRule(FALSE, <<"tail">>, <<"-f", "/dev/null">>, dev.workdir, volumes)
       ELSE IF Len(dev.command) > 0
       THEN TranslationRule(TRUE, dev.command, <<>>, dev.workdir, volumes)
       ELSE TranslationRule(TRUE, <<>>, <<>>, dev.workdir, volumes)

RuleInit ==
    /\ PollIdle
    /\ DevIdle
    /\ RestartIdle
    /\ ResIdle
    /\ GtIdle
    /\ SecIdle
    /\ \E raw \in RawManifests : root = setDefaults(raw)
    /\ node = 0
    /\ built = <<>>

\* part_000:56, part_000:75: the rule of the next node is built, the primary's first
BuildRule ==
    /\ node <= Len(root.services)
    /\ built' = Append(built, ToTranslationRule(root, node))
    /\ node' = node + 1
    /\ UNCHANGED <<root, pollVars, devVars, restartVars, resVars, gtVars, secVars>>

RuleNext == BuildRule

RuleSpec == RuleInit /\ [][RuleNext]_vars

----------------------------------------------------------------------------
(* TranslateSecurityContext *)

MaxCapabilities == 2

\* apiv1.Capability values; capabilities that differ in case only are two
CapabilityNames == {"SYS_TRACE", "sys_trace", "SYS_NICE"}

CapabilityLists == UNION { [1..n -> CapabilityNames] : n \in 0..MaxCapabilities }
\* apiv1.Capabilities, model.Capabilities
Capabilities(add, drop) == [Add |-> add, Drop |-> drop]

\* the capabilities of a container: no list names a capability twice
ContainerCapabilities ==
    { Capabilities(a, d) :
        a \in { l \in CapabilityLists : \A x, y \in 1..Len(l) : l[x] = l[y] => x = y },
        d \in { l \in CapabilityLists : \A x, y \in 1..Len(l) : l[x] = l[y] => x = y } }
\* the capabilities of a rule
RuleCapabilities == { Capabilities(a, d) : a \in CapabilityLists, d \in CapabilityLists }

\* every capability of the rule is appended
RECURSIVE MergeCapabilities_Append(_, _)
MergeCapabilities_Append(existing, wanted) ==
    IF wanted = <<>> THEN existing
    ELSE MergeCapabilities_Append(Append(existing, Head(wanted)), Tail(wanted))

\* the merge of one list (add or drop): each capability the rule names is
\* appended unless the list holds it already
RECURSIVE MergeCapabilities(_, _)
MergeCapabilities(existing, wanted) ==
    IF wanted = <<>> THEN existing
    ELSE IF \E x \in 1..Len(existing) : existing[x] = Head(wanted)
    THEN MergeCapabilities(existing, Tail(wanted))
    ELSE MergeCapabilities(Append(existing, Head(wanted)), Tail(wanted))

\* TranslateSecurityContext(c, s): the add and the drop list are merged independently
TranslateSecurityContext(c, s) ==
    Capabilities(MergeCapabilities(c.Add, s.Add), MergeCapabilities(c.Drop, s.Drop))

SecInit ==
    /\ PollIdle
    /\ DevIdle
    /\ RestartIdle
    /\ ResIdle
    /\ GtIdle
    /\ RuleIdle
    /\ capabilities \in ContainerCapabilities
    /\ ruleCapabilities \in RuleCapabilities
    /\ capsBefore = capabilities
    /\ capsApplied = 0

\* the forward translation applies the security context of the rule to the container
TranslateSecurity ==
    /\ capsApplied < MaxApplications
    /\ capabilities' = TranslateSecurityContext(capabilities, ruleCapabilities)
    /\ capsApplied' = capsApplied + 1
    /\ UNCHANGED <<ruleCapabilities, capsBefore,
                   pollVars, devVars, restartVars, resVars, gtVars, ruleVars>>

SecNext == TranslateSecurity

SecSpec == SecInit /\ [][SecNext]_vars

----------------------------------------------------------------------------
(* Properties of GetByLabel *)

\* a pod that counts for the success condition
Qualifies(p) == p.phase = PodRunning /\ ~p.deleting
Qualifying(items) == { i \in 1..Len(items) : Qualifies(items[i]) }

\* a pod outside the Running phase whose okteto init container has failed
InitFailed(p) ==
    /\ p.phase # PodRunning
    /\ \E k \in 1..Len(p.init) :
         /\ p.init[k].name = OktetoInitContainer
         /\ \/ p.init[k].terminated /\ p.init[k].exitCode # 0
            \/ p.init[k].waiting \in {"ErrImagePull", "ImagePullBackOff"}
AnyInitFailed(items) == \E i \in 1..Len(items) : InitFailed(items[i])

\* a lookup answer holding a true FailedCreate replica failure with a quota message
QuotaFailure(g) ==
    /\ g.err = "nil"
    /\ \E k \in 1..Len(g.conditions) :
         /\ g.conditions[k].type = DeploymentReplicaFailure
         /\ g.conditions[k].reason = failedCreateReason
         /\ g.conditions[k].status = "True"
         /\ g.conditions[k].quotaMsg

\* the step in which GetByLabel judges the answer of this attempt's list call
Judges == pc = "listed" /\ pc' # "listed"

\* once GetByLabel has returned it lists no more
NoPollAfterReturn == pc = "done" => (pc' = "done" /\ listCalls' = listCalls)

Outcomes == {"Success", "ListError", "NotFound", "ErrQuota", "InitVolumeError",
             "ImagePullError", "Cancelled", "Timeout"}

\* C1 as stated: in an attempt whose list succeeds with exactly one Running pod
\* without deletion timestamp, GetByLabel returns that pod in that attempt,
\* whatever the other listed pods are.
C1_Original ==
    [][(Judges /\ ~listErr /\ Cardinality(Qualifying(pods)) = 1)
        => (pc' = "done" /\ result' = "Success" /\ retPod' \in Qualifying(pods))]_vars

\* C1 amended: in an attempt whose list succeeds with exactly one Running pod
\* without deletion timestamp and no listed pod outside the Running phase has a
\* failed okteto init container, GetByLabel returns that pod in that attempt.
C1_ReturnsTheRunningPod ==
    [][(Judges /\ ~listErr /\ Cardinality(Qualifying(pods)) = 1 /\ ~AnyInitFailed(pods))
        => (pc' = "done" /\ result' = "Success" /\ retPod' \in Qualifying(pods))]_vars

\* success on the first attempt, no tick taken, beside a pod that does not count
C1_Witness ==
    /\ pc = "done" /\ result = "Success" /\ tries = 0 /\ listCalls = 1
    /\ Len(pods) = 2 /\ Qualifies(pods[retPod])
    /\ \E i \in 1..Len(pods) : ~Qualifies(pods[i])

\* how far GetByLabel is from its return: attempts left, then the position in
\* the loop body, then the one cancellation still to come
Rank ==
    CASE pc = "loop" -> 4
      [] pc = "listed" -> 3
      [] pc = "select" -> IF tickReady THEN 1 ELSE 2
      [] OTHER -> 0
Measure == 5 * (maxRetries - tries) + Rank + (IF cancelled THEN 0 ELSE 1)

\* C2: every call of GetByLabel terminates. It issues at most maxRetries pod list
\* calls; until it has returned it can always take a step or, at the select, be
\* woken by the ticker; every step brings it closer to its return, so no run is
\* infinite; and what it returns is one of its outcomes.
C2_Terminates ==
    /\ [](/\ listCalls <= maxRetries
          /\ Measure >= 0
          /\ pc # "done" => (ENABLED PollStep \/ (pc = "select" /\ ENABLED Tick))
          /\ pc = "done" => result \in Outcomes)
    /\ [][Measure' < Measure]_vars

\* C2 under fairness: while GetByLabel keeps running and the ticker keeps firing,
\* GetByLabel eventually returns (checked under PollFairSpec).
C2_EventuallyReturns == <>(pc = "done" /\ result \in Outcomes)

\* the wait ran out after maxRetries list calls
C2_Witness == pc = "done" /\ result = "Timeout" /\ listCalls = maxRetries

\* C3 as stated: with ctx cancelled before the first attempt, the result of
\* GetByLabel is the cancellation error.
C3_Original == (pc = "done" /\ preCancelled) => result = "Cancelled"

\* C3 amended: with ctx cancelled before the first attempt, GetByLabel still makes
\* that attempt; when the attempt reaches the select without returning and no tick
\* is buffered, GetByLabel returns the cancellation error.
C3_CancelledAtSelect ==
    [][(preCancelled /\ pc = "select" /\ ~tickReady /\ pc' # "select")
        => (pc' = "done" /\ result' = "Cancelled" /\ listCalls' = listCalls)]_vars

\* cancelled before the call, returned Cancelled after the first attempt
C3_Witness ==
    pc = "done" /\ preCancelled /\ result = "Cancelled" /\ tries = 0 /\ listCalls = 1

\* C4 as stated: if every list succeeds with zero pods and the caller never
\* cancels, GetByLabel returns the Timeout error.
C4_Original == (pc = "done" /\ allEmpty /\ ~cancelled) => result = "Timeout"

\* the side-check of the last attempt ended the wait
SideCheckEnded ==
    \/ lookup.err = "NotFound" /\ ~waitUntilDeployed
    \/ QuotaFailure(lookup)

\* C4 amended: if every list succeeds with zero pods, the caller never cancels
\* and no side-check ends the wait (NotFound without waitUntilDeployed, or a quota
\* failure), GetByLabel returns the Timeout error after maxRetries list calls.
C4_TimeoutWhenNoPods ==
    (pc = "done" /\ allEmpty /\ ~cancelled /\ ~SideCheckEnded)
        => (result = "Timeout" /\ listCalls = maxRetries /\ tries = maxRetries)

\* timed out on empty lists only
C4_Witness ==
    pc = "done" /\ allEmpty /\ ~cancelled /\ result = "Timeout" /\ listCalls = maxRetries

\* C5 as stated: on a quota failure found by the side-check GetByLabel returns
\* the quota error only without waitUntilDeployed, and goes on polling with it.
C5_Original ==
    [][(Judges /\ QuotaFailure(lookup'))
        => IF waitUntilDeployed THEN pc' = "select"
           ELSE pc' = "done" /\ result' = "ErrQuota"]_vars

\* C5 amended: on a quota failure found by the side-check GetByLabel returns the
\* quota error at once, with or without waitUntilDeployed; the flag decides only
\* a NotFound answer of the lookup: returned without it, polling goes on with it.
C5_QuotaAlwaysFatal ==
    [][/\ (Judges /\ QuotaFailure(lookup')) => (pc' = "done" /\ result' = "ErrQuota")
       /\ (Judges /\ lookup'.err = "NotFound")
            => IF waitUntilDeployed THEN pc' = "select"
               ELSE pc' = "done" /\ result' = "NotFound"]_vars

\* the quota error returned to a caller that asked to wait until deployed
C5_Witness == pc = "done" /\ result = "ErrQuota" /\ waitUntilDeployed /\ QuotaFailure(lookup)

\* C6: a failed pod list makes GetByLabel return a failure in that attempt, and
\* no list call follows.
C6_ListErrorFatal ==
    [][/\ (Judges /\ listErr) => (pc' = "done" /\ result' = "ListError" /\ retPod' = 0)
       /\ NoPollAfterReturn]_vars

\* a list call failed in a later attempt and ended the wait
C6_Witness == pc = "done" /\ listErr /\ result = "ListError" /\ tries > 0

\* C7: a listed pod outside the Running phase whose okteto init container
\* terminated with a non-zero exit code or waits on ErrImagePull or
\* ImagePullBackOff makes GetByLabel return a fatal error in that attempt, and
\* no list call follows.
C7_InitFailureFatal ==
    [][/\ (Judges /\ ~listErr /\ AnyInitFailed(pods))
            => (pc' = "done" /\ result' \in {"InitVolumeError", "ImagePullError"}
                /\ retPod' = 0)
       /\ NoPollAfterReturn]_vars

\* an image pull failure ended the wait although a Running pod was listed
C7_Witness ==
    /\ pc = "done" /\ result = "ImagePullError"
    /\ Cardinality(Qualifying(pods)) = 1
    /\ \E i \in 1..Len(pods) :
         pods[i].phase # PodRunning /\ pods[i].init = InitBackOff

----------------------------------------------------------------------------
(* Properties of DevModeOff *)

\* the map holds a non-empty value under the key
Present(m, k) == k \in DOMAIN m /\ m[k].kind # "empty"
HasTranslation(d) == Present(d.tmplAnnotations, OktetoTranslationAnnotation)
HasManifest(d) == Present(d.annotations, oktetoDeploymentAnnotation)

\* the original-manifest annotation holds a deployment captured by a session
HasCaptured(d) ==
    /\ HasManifest(d)
    /\ \E o \in Originals : d.annotations[oktetoDeploymentAnnotation] = MarshalDeployment(o)
CapturedOriginal(d) ==
    CHOOSE o \in Originals : d.annotations[oktetoDeploymentAnnotation] = MarshalDeployment(o)

\* the replica count held by the translation annotation
TranslationReplicas(d) ==
    LET t == d.tmplAnnotations[OktetoTranslationAnnotation] IN
    IF t.replicas = <<>> THEN 0 ELSE t.replicas[1].n

Succeeded == dpc = "done" /\ dmResult = "ok"
LastWritten == written[Len(written)]

\* m is m0 without the keys of gone
SameBut(m, m0, gone) ==
    /\ DOMAIN m = (DOMAIN m0) \ gone
    /\ \A k \in DOMAIN m : m[k] = m0[k]

\* no dev-mode label and no translation, version or developer annotation
NoDevMetadata(d) ==
    /\ ~IsDevModeOn(d)
    /\ OktetoTranslationAnnotation \notin DOMAIN d.tmplAnnotations
    /\ oktetoVersionAnnotation \notin DOMAIN d.annotations
    /\ oktetoDeveloperAnnotation \notin DOMAIN d.annotations

C9_PathByMetadata ==
    dpc # "start" =>
       /\ path = IF HasTranslation(given) THEN "partial"
                 ELSE IF HasManifest(given) THEN "wholesale" ELSE "noop"
       /\ path = "noop" =>
            /\ dpc = "done" /\ dmResult = "ok"
            /\ written = <<>> /\ dep = given
            /\ ~edited => store = given
       /\ (path = "partial" /\ written # <<>>) =>
            /\ LastWritten.name = given.name
            /\ LastWritten.podSpec = given.podSpec
       /\ (path = "wholesale" /\ written # <<>>) =>
            /\ dep = given
            /\ HasCaptured(given) =>
                 /\ LastWritten.podSpec = CapturedOriginal(given).podSpec
                 /\ LastWritten.replicas = CapturedOriginal(given).replicas
                 /\ LastWritten.labels = CapturedOriginal(given).labels

\* a workload that carries the dev-mode label and session annotations, but
\* neither snapshot, was left alone
C9_Witness ==
    /\ dpc = "done" /\ path = "noop" /\ dmResult = "ok"
    /\ IsDevModeOn(given)
    /\ oktetoDeveloperAnnotation \in DOMAIN given.annotations
    /\ OktetoTranslationAnnotation \in DOMAIN given.tmplAnnotations

\* C10: on the partial restore the written object differs from the one passed
\* in only by the replica count (the one held by the translation annotation),
\* the removed dev-mode label, the removed translation, version and developer
\* annotations, and the cleared resource version and status.
C10_PartialRestoreFrame ==
    (path = "partial" /\ written # <<>>) =>
       /\ Len(written) = 1
       /\ LastWritten.replicas = <<TranslationReplicas(given)>>
       /\ SameBut(LastWritten.labels, given.labels, {OktetoDevLabel})
       /\ SameBut(LastWritten.annotations, given.annotations,
                  {oktetoDeveloperAnnotation, oktetoVersionAnnotation})
       /\ SameBut(LastWritten.tmplAnnotations, given.tmplAnnotations,
                  {OktetoTranslationAnnotation})
       /\ LastWritten.podSpec = given.podSpec
       /\ LastWritten.name = given.name
       /\ LastWritten.resourceVersion = 0
       /\ LastWritten.status = ""

\* a partial restore that set the replicas back and kept the other label, the
\* original-manifest annotation and the other template annotation
C10_Witness ==
    /\ Succeeded /\ path = "partial"
    /\ TranslationReplicas(given) = MaxReplicas
    /\ given.replicas # <<MaxReplicas>>
    /\ "app" \in DOMAIN LastWritten.labels
    /\ oktetoDeploymentAnnotation \in DOMAIN LastWritten.annotations
    /\ "sidecar.istio.io/inject" \in DOMAIN LastWritten.tmplAnnotations
    /\ IsDevModeOn(given) /\ ~IsDevModeOn(LastWritten)

\* the annotation DevModeOff reads: the translation annotation of the pod
\* template, or the original-manifest annotation when that one is empty
ReadsTranslation(d) == HasTranslation(d)
ReadsManifest(d) == ~HasTranslation(d) /\ HasManifest(d)

\* text that is not a JSON object; of a Translation also a JSON object whose
\* replicas member is not a number
NotJson(text) == text.kind = "plain"
WrongType(text) == text.kind = "object" /\ text.replicas # <<>> /\ ~text.replicas[1].num
MalformedRead(d) ==
    \/ /\ ReadsTranslation(d)
       /\ \/ NotJson(d.tmplAnnotations[OktetoTranslationAnnotation])
          \/ WrongType(d.tmplAnnotations[OktetoTranslationAnnotation])
    \/ ReadsManifest(d) /\ NotJson(d.annotations[oktetoDeploymentAnnotation])

\* C11: when the annotation DevModeOff reads (the translation annotation, or the
\* original-manifest annotation without one) holds malformed JSON, DevModeOff
\* returns an error, issues no write and leaves the object it was given as it was.
C11_MalformedIsFatal ==
    (dpc # "start" /\ MalformedRead(given)) =>
       /\ dpc = "done"
       /\ dmResult = IF ReadsTranslation(given) THEN "MalformedTrRules"
                     ELSE "MalformedManifest"
       /\ written = <<>>
       /\ dep = given
       /\ ~edited => store = given

\* a malformed translation annotation stopped DevModeOff although the
\* original-manifest annotation held a captured original
C11_Witness ==
    /\ dpc = "done" /\ dmResult = "MalformedTrRules"
    /\ given.tmplAnnotations[OktetoTranslationAnnotation] = PlainText
    /\ HasCaptured(given) /\ IsDevModeOn(given)
    /\ written = <<>> /\ dep = given

\* the cluster answers an Update call
Answered == dpc = "update" /\ dpc' = "done"

\* C12: every update the mutator (DevModeOff, Deploy without forceCreate) writes
\* carries an empty resource version; no update is refused with a conflict, and
\* an update that reaches the cluster and names the stored workload succeeds and
\* replaces it, also when another writer changed it between the mutator's read
\* and its write.
C12_LastWriterWins ==
    /\ [](\A i \in 1..Len(written) : written[i].resourceVersion = 0)
    /\ [](dmResult # "Conflict")
    /\ [][(Answered /\ dmResult' # "ApiError" /\ LastWritten.name = store.name)
            => /\ dmResult' = "ok"
               /\ store' = [LastWritten EXCEPT !.resourceVersion = store.resourceVersion + 1,
                                                !.status = store.status]]_vars

\* Deploy without forceCreate overwrote the edit another writer had made after
\* the deployment was read
C12_Witness ==
    /\ Succeeded /\ path = "deploy" /\ edited
    /\ store.replicas = <<1>>
    /\ store.resourceVersion = given.resourceVersion + 2

\* C13 as stated: after a successful DevModeOff on a workload that carries the
\* translation annotation, the original-manifest annotation or both, the written
\* workload carries neither of the two.
C13_Original ==
    (Succeeded /\ (HasTranslation(given) \/ HasManifest(given)))
        => /\ written # <<>>
           /\ ~HasTranslation(LastWritten)
           /\ ~HasManifest(LastWritten)

\* a successful DevModeOff on a workload that carried both annotations wrote a
\* workload that still carries the original-manifest annotation
C13_Witness ==
    /\ Succeeded /\ HasTranslation(given) /\ HasCaptured(given)
    /\ ~HasTranslation(LastWritten)
    /\ LastWritten.annotations[oktetoDeploymentAnnotation]
         = given.annotations[oktetoDeploymentAnnotation]
    /\ ~edited /\ HasManifest(store)

----------------------------------------------------------------------------
(* Properties of Restart *)

\* the pod is in the Running phase, has a true Ready condition and no deletion
\* timestamp
Satisfied(p) == p.phase = PodRunning /\ p.ready /\ ~p.deleting
Unsatisfied(items) == { items[k].name : k \in { x \in 1..Len(items) : ~Satisfied(items[x]) } }
Listed(items) == { items[k].name : k \in 1..Len(items) }
FailedPods(items) == { k \in 1..Len(items) : items[k].phase = PodFailed }

RestartOk == rpc = "done" /\ rResult = "ok"
Waiting == rpc \in {"loop", "listed", "tick"}

\* C14 as stated: Restart returns success only after an iteration of the wait,
\* made after the deletes, in whose list every pod is Running, ready and without
\* deletion timestamp.
C14_Original ==
    RestartOk => /\ waitLists >= 1
                 /\ deleted = toDelete
                 /\ Unsatisfied(rpods) = {}

\* Restart returned success without a single iteration of the wait
C14_Witness == RestartOk /\ waitLists = 0 /\ toDelete # <<>>

\* C15 as stated: Restart has issued a delete for each pod of its initial list
\* when it starts waiting; a delete answered "not found" is no error and counts
\* as done, so Restart returns success only with every pod of the list deleted.
C15_Original ==
    /\ Waiting => deleted = toDelete
    /\ RestartOk => deleted = toDelete

\* Restart returned success with a pod of its initial list left without a delete
C15_Witness == RestartOk /\ Len(toDelete) = 2 /\ Len(deleted) = 1

\* C16: when a listed pod is in the Failed phase in an iteration of the wait,
\* Restart returns in that iteration an error that names a Failed pod of the list
\* (the first one), whatever the other pods are, and lists no more.
C16_FailedAborts ==
    /\ [][(rpc = "listed" /\ rpc' # "listed" /\ FailedPods(rpods) # {})
            => /\ rpc' = "done" /\ rResult' = "PodFailed"
               /\ \E k \in FailedPods(rpods) :
                     /\ named' = {rpods[k].name}
                     /\ \A j \in FailedPods(rpods) : k <= j
               /\ waitLists' = waitLists]_vars
    /\ [][rpc = "done" => (rpc' = "done" /\ waitLists' = waitLists)]_vars

\* after some iterations the wait was aborted for the second pod of a list
\* whose first pod was still Pending
C16_Witness ==
    /\ rpc = "done" /\ rResult = "PodFailed" /\ iteration > 0
    /\ Len(rpods) = 2 /\ rpods[1].phase = PodPending /\ rpods[2].phase = PodFailed
    /\ named = {rpods[2].name}

\* C17 as stated: when the wait ends after its 60 iterations the error names
\* exactly the pods of the final list that are not satisfied: none that is gone,
\* none that was last seen ready.
C17_Original ==
    (rpc = "done" /\ rResult = "Timeout") => named = Unsatisfied(rpods)

\* the error of the exhausted wait names a pod that the final list does not hold
C17_Witness ==
    /\ rpc = "done" /\ rResult = "Timeout" /\ waitLists = restartRetries
    /\ named \ Listed(rpods) # {}

----------------------------------------------------------------------------
(* Properties of the side-check's workload lookup *)

\* C18 as stated: an error other than NotFound returned by the workload lookup
\* of the side-check (a cluster API error, more than one workload matching the
\* selector) ends the wait in that attempt and is the error GetByLabel returns.
C18_Original ==
    [][(Judges /\ lookup'.err \in {"ApiError", "Ambiguous"})
        => (pc' = "done" /\ result' = lookup'.err)]_vars

\* C18 amended: an error other than NotFound returned by the workload lookup of
\* the side-check is ignored: the attempt ends neither in that error nor in any
\* other return, and GetByLabel goes on to wait for the next tick.
C18_LookupErrorIgnored ==
    [][(Judges /\ lookup'.err \in {"ApiError", "Ambiguous"})
        => (pc' = "select" /\ result' = "none" /\ listCalls' = listCalls)]_vars

\* the lookup failed with an API error in the last side-check and GetByLabel
\* went on to wait for the next tick
C18_Witness ==
    /\ pc = "select" /\ lookup.err = "ApiError" /\ tries = maxRetries - 10
    /\ allEmpty /\ result = "none"

----------------------------------------------------------------------------
(* Properties of TranslateResources *)

ListKinds == {"limits", "requests"}

\* what the merge of one resource of one list has to give: got and had are the
\* lists after and before, r is the rule's list
RuleWins(got, r, name) == name \in DOMAIN got /\ got[name] = r[name]
Kept(got, had, name) ==
    IF name \in DOMAIN had THEN name \in DOMAIN got /\ got[name] = had[name]
    ELSE name \notin DOMAIN got

\* C19: after TranslateResources, for cpu and memory and for limits and requests
\* alike, the container holds the rule's quantity where the rule specifies a
\* (non-zero) one, and what it held before (a quantity or none) where the rule
\* specifies none; a quantity is never the sum of the two. Where the rule holds a
\* quantity of zero the container holds either the zero or what it held before.
C19_RuleWinsOrKept ==
    applied >= 1 =>
      \A b \in ListKinds, name \in ResourceNames :
        LET got == once[b]  had == before[b]  r == rule[b] IN
        /\ (name \in DOMAIN r /\ r[name] # 0) => RuleWins(got, r, name)
        /\ name \notin DOMAIN r => Kept(got, had, name)
        /\ (name \in DOMAIN r /\ r[name] = 0)
              => (RuleWins(got, r, name) \/ Kept(got, had, name))
        /\ (name \in DOMAIN r /\ name \in DOMAIN had /\ r[name] # 0)
              => got[name] # r[name] + had[name]

\* the four combinations in one application: the rule and the container hold a
\* cpu limit, only the rule a memory limit, only the container a cpu request,
\* neither a memory request
C19_Witness ==
    /\ applied = 1
    /\ before.limits = [n \in {"cpu"} |-> 1]
    /\ rule.limits = [n \in ResourceNames |-> 2]
    /\ before.requests = [n \in {"cpu"} |-> 2]
    /\ rule.requests = <<>>
    /\ container.limits = [n \in ResourceNames |-> 2]
    /\ container.requests = [n \in {"cpu"} |-> 2]

\* C20: applying TranslateResources again with the same rule leaves the limits
\* and requests the first application gave.
C20_Idempotent == applied >= 1 => container = once

\* the second application of a rule that had changed the container
C20_Witness ==
    /\ applied = 2 /\ container = once /\ once # before
    /\ \E name \in ResourceNames :
          /\ name \in DOMAIN before.limits /\ name \in DOMAIN rule.limits
          /\ rule.limits[name] # 0 /\ rule.limits[name] # before.limits[name]

----------------------------------------------------------------------------
(* Further properties of GetByLabel *)

\* the side-check of this attempt ends the wait
SideCheckEnds(g, wait) == (g.err = "NotFound" /\ ~wait) \/ QuotaFailure(g)

C27_SideCheckSchedule ==
    /\ [][Judges => ((lookup' # NoLookup)
                      <=> (tries % 10 = 0 /\ ~listErr /\ Len(pods) = 0))]_vars
    /\ [][~Judges => lookup' \in {lookup, NoLookup}]_vars

\* the lookup of attempt 10 answered NotFound and ended the wait
C27_Witness ==
    /\ pc = "done" /\ tries = 10 /\ listCalls = 11
    /\ lookup.err = "NotFound" /\ result = "NotFound"

----------------------------------------------------------------------------
(* Further properties of Restart *)

\* the wait judges the list of this iteration
WaitJudges == rpc = "listed" /\ rpc' # "listed"

\* a pod of the list that the wait has to wait for: Pending, or Running without
\* being ready
Blocks(p) == p.phase = PodPending \/ (p.phase = PodRunning /\ ~Satisfied(p))
Blocking(items) == { k \in 1..Len(items) : Blocks(items[k]) }

\* C28: the restart wait decides success from the list of the current iteration
\* alone. Without a Failed pod in it, the iteration returns success exactly when
\* no pod of the list is Pending or Running-but-not-ready, whatever was recorded
\* in earlier iterations: a pod recorded as not ready that is no longer listed
\* does not block, a pod that is Pending or not ready now does.
C28_CurrentListDecides ==
    [][(WaitJudges /\ FailedPods(rpods) = {})
        => ((rpc' = "done" /\ rResult' = "ok") <=> Blocking(rpods) = {})]_vars

\* success on a list of one ready pod while another pod, recorded as not ready
\* in an earlier iteration, is no longer listed
C28_Witness ==
    /\ RestartOk /\ iteration >= 1
    /\ Len(rpods) = 1 /\ Satisfied(rpods[1])
    /\ notready # {} /\ notready \cap Listed(rpods) = {}

\* C29: a list that is empty, or holds only pods whose phase is none of
\* Pending, Failed and Running, makes Restart return success in that iteration.
C29_NothingToWaitFor ==
    [][(WaitJudges /\ \A k \in 1..Len(rpods) :
                        rpods[k].phase \notin {PodPending, PodFailed, PodRunning})
        => (rpc' = "done" /\ rResult' = "ok" /\ waitLists' = waitLists)]_vars

\* Restart deleted two pods and returned success in the first iteration of the
\* wait, on a list holding one Succeeded pod
C29_Witness ==
    /\ RestartOk /\ Len(deleted) = 2 /\ waitLists = 1 /\ iteration = 0
    /\ Len(rpods) = 1 /\ rpods[1].phase = PodSucceeded

----------------------------------------------------------------------------
(* Properties of Get and GetTranslations *)

\* the deployments of the cluster whose labels carry every pair of the labels
Matching(labels) ==
    { n \in DOMAIN cluster :
        \A key \in DOMAIN labels : key \in DOMAIN cluster[n] /\ cluster[n][key] = labels[key] }

\* the API answered the call
Served(g) == g.err # "ServerError"

\* C24: in a namespace, Get looks a manifest with no labels up by its exact
\* name, and a manifest with labels up by label selector; of a selector the one
\* match is returned, no match gives NotFound, and several matches give an
\* error and no deployment.
C24_DualLookup ==
    \A k \in 1..Len(gets) :
        LET s == manifest.services[k]
            g == gets[k]
        IN namespace # "" =>
            /\ DOMAIN s.labels = {} =>
                 /\ g.call = "get"
                 /\ g.err = "none" => (g.d = s.name /\ s.name \in DOMAIN cluster)
                 /\ (Served(g) /\ s.name \notin DOMAIN cluster) => IsNotFound(g.err)
            /\ DOMAIN s.labels # {} =>
                 /\ g.call = "list"
                 /\ g.err = "none" => Matching(s.labels) = {g.d}
                 /\ (Served(g) /\ Matching(s.labels) = {}) =>
                        (IsNotFound(g.err) /\ g.d = NilDeployment)
                 /\ (Served(g) /\ Cardinality(Matching(s.labels)) > 1) =>
                        (g.err \notin {"none", "NotFound"} /\ g.d = NilDeployment)

\* the first service was found by selector as the one match, and the selector
\* of the second matched both deployments
C24_Witness ==
    /\ Len(gets) = 2
    /\ gets[1].call = "list" /\ gets[1].err = "none" /\ gets[1].items = {gets[1].d}
    /\ Cardinality(DOMAIN cluster) = 2
    /\ gets[2].call = "list" /\ gets[2].items = DOMAIN cluster /\ gets[2].err = "Found many"

\* GetTranslations has looked a service up in this step
LooksUp == gpc = "services" /\ Len(gets') = Len(gets) + 1
Answer == gets'[Len(gets')]

\* C25: a service whose lookup answers NotFound is skipped, and the services
\* after it are still looked up; any other lookup error ends GetTranslations
\* with that error and a nil map.
C25_NotFoundSkipsOthersAbort ==
    /\ [][(LooksUp /\ IsNotFound(Answer.err))
            => (gpc' = "services" /\ service' = service + 1 /\ translations' = translations)]_vars
    /\ [][(LooksUp /\ Answer.err \notin {"none", "NotFound"})
            => (gpc' = "done" /\ gtResult' = Answer.err /\ returned' = NilMap)]_vars
    /\ []((gpc = "done" /\ gtResult = "ok") => Len(gets) = Len(manifest.services))
    /\ [](gtResult \notin {"none", "ok"} => returned = NilMap)

\* the first service was not found, the second was, and GetTranslations
\* returned the translation of the second
C25_Witness ==
    /\ gpc = "done" /\ gtResult = "ok"
    /\ Len(gets) = 2
    /\ IsNotFound(gets[1].err)
    /\ gets[2].err = "none"
    /\ primary = NilDeployment
    /\ DOMAIN returned = {gets[2].d}

\* the nodes of the manifest whose lookup resolved to the workload: 0 is the primary
NodesOf(n) ==
    { k \in 0..Len(gets) :
        \/ k = 0 /\ primary = n
        \/ k > 0 /\ gets[k].err = "none" /\ gets[k].d = n }

GtReturned == gpc = "done" /\ gtResult = "ok"

\* C30: the map GetTranslations returns has one Translation for every workload
\* some node resolved to; its rules are those of the nodes that resolved to the
\* workload, in manifest order, the primary's first; it is interactive exactly
\* if the workload is the primary's, so at most one Translation is interactive,
\* and none is without a rule.
C30_OneTranslationPerWorkload ==
    GtReturned =>
        /\ DOMAIN returned = { n \in DeploymentNames : NodesOf(n) # {} }
        /\ \A n \in DOMAIN returned :
             LET rules == returned[n].Rules IN
             /\ Len(rules) = Cardinality(NodesOf(n))
             /\ Len(rules) >= 1
             /\ \A x \in 1..Len(rules) : rules[x].node \in NodesOf(n)
             /\ \A x, y \in 1..Len(rules) : x < y => rules[x].node < rules[y].node
             /\ returned[n].Interactive <=> n = primary
        /\ Cardinality({ n \in DOMAIN returned : returned[n].Interactive }) <= 1

\* the primary and the second service resolved to one workload and the first
\* service to another: two translations, the interactive one with two rules
C30_Witness ==
    /\ GtReturned
    /\ Cardinality(DOMAIN returned) = 2
    /\ primary \in DOMAIN returned
    /\ returned[primary].Rules = <<RuleOf(0), RuleOf(2)>>
    /\ \E n \in DOMAIN returned : ~returned[n].Interactive /\ returned[n].Rules = <<RuleOf(1)>>

----------------------------------------------------------------------------
(* Properties of ToTranslationRule *)

\* the rule of node k has been built
Built(k) == k + 1 <= Len(built)

\* C22: the rule of the root has health checks disabled and the command tail
\* with the arguments -f /dev/null, whatever command the root declares; the rule
\* of a service has health checks enabled and no arguments, and its command is
\* the command the service declares, which is no override when that is empty.
C22_RootTailsServicesRun ==
    \A k \in 0..Len(built) - 1 :
        LET r == built[k + 1] IN
        IF k = 0
        THEN /\ ~r.Healthchecks
             /\ r.Command = <<"tail">>
             /\ r.Args = <<"-f", "/dev/null">>
        ELSE /\ r.Healthchecks
             /\ r.Args = <<>>
             /\ Len(root.services[k].command) > 0 => r.Command = root.services[k].command
             /\ Len(root.services[k].command) = 0 => r.Command = <<>>

\* the root declares a command of its own and its rule runs tail; the service
\* declares a command and its rule runs it with health checks enabled
C22_Witness ==
    /\ Built(0) /\ Built(1)
    /\ root.command = <<"./run.sh">>
    /\ built[1].Command = <<"tail">> /\ ~built[1].Healthchecks
    /\ root.services[1].command = <<"./run.sh">>
    /\ built[2].Command = <<"./run.sh">> /\ built[2].Args = <<>> /\ built[2].Healthchecks

\* the path begins with the segments of prefix
BeginsWith(p, prefix) == Len(p) >= Len(prefix) /\ SubSeq(p, 1, Len(prefix)) = prefix

\* C23 as stated: every mount of a rule is on the one shared volume; the first
\* mount is at the mount path of the node with the sub-path <root name>/data-0,
\* whatever sub-path the root or the node declares; the mount of the declared
\* volume at index i has a sub-path that begins with <root name>/data-<i+1>;
\* the rule has one mount more than the node declares volumes, and the
\* sub-paths of its mounts differ pairwise.
C23_Original ==
    \A k \in 0..Len(built) - 1 :
        LET mounts == built[k + 1].Volumes
            dev == NodeOf(root, k)
        IN /\ \A x \in 1..Len(mounts) : mounts[x].Name = oktetoVolumeName
           /\ Len(mounts) = 1 + Len(dev.volumes)
           /\ mounts[1].MountPath = dev.mountpath
           /\ mounts[1].SubPath = <<root.name, "data-0">>
           /\ \A x \in 1..Len(dev.volumes) :
                /\ mounts[x + 1].MountPath = dev.volumes[x]
                /\ BeginsWith(mounts[x + 1].SubPath, <<root.name, "data-" \o ToString(x)>>)
           /\ \A x, y \in 1..Len(mounts) : x # y => mounts[x].SubPath # mounts[y].SubPath

\* the root declares the sub-path src and no volume, and the one mount of its
\* rule has the sub-path <root name>/data-0/src
C23_Witness ==
    /\ Built(0)
    /\ root.subpath = <<"src">> /\ root.volumes = <<>>
    /\ Len(built[1].Volumes) = 1
    /\ built[1].Volumes[1].SubPath = <<root.name, "data-0", "src">>

----------------------------------------------------------------------------
(* Properties of TranslateSecurityContext *)

\* the capabilities a list names, and the place where it names one first
Named(list) == { list[x] : x \in 1..Len(list) }
FirstAt(list, cap) == CHOOSE x \in 1..Len(list) : list[x] = cap /\ \A y \in 1..x - 1 : list[y] # cap

\* got is the deduplicated ordered union of the list was and the list the rule names
OrderedUnion(got, was, wanted) ==
    /\ BeginsWith(got, was)
    /\ Named(got) = Named(was) \cup Named(wanted)
    /\ \A x, y \in 1..Len(got) : got[x] = got[y] => x = y
    /\ \A x, y \in Len(was) + 1..Len(got) :
         x < y => FirstAt(wanted, got[x]) < FirstAt(wanted, got[y])

====
